---- MODULE Spec2Model ----
(***************************************************************************)
(* Model of the model-serving layer of ModMaster Pro's AI service.         *)
(*                                                                         *)
(* Spec, SpecServe, SpecTimed: ModelRegistry and ModelServer of            *)
(* app/services/model_loader.py. Both run on one asyncio event loop: a     *)
(* coroutine runs without interruption from one await that really suspends *)
(* (the run_in_executor future of load_model) to the next, so each action  *)
(* is one such uninterrupted stretch of a coroutine.                       *)
(* SpecKeys: the cache-key functions of model_loader.py and of             *)
(* deployment/model-server.py, applied to pairs of requests.               *)
(* SpecBatch: POST /batch of app/api/inference_server.py with              *)
(* InferenceEngine.process_batch_async and PartClassifier.batch_classify.  *)
(* SpecStream: InferenceEngine.stream_process over a stream of frames.     *)
(* SpecSelect: ModelServer.get_model over registries of models with        *)
(* metrics, versions and statuses.                                         *)
(* SpecCrash: the mutating operations of ModelRegistry with the process    *)
(* dying in _save_registry.                                                *)
(* SpecHealth: load_all_models, health_check and cleanup of                *)
(* deployment/model-server.py, ModelManager.load_models of                 *)
(* app/core/model_manager.py and GET /ready of app/api/health.py.          *)
(***************************************************************************)
EXTENDS Integers, Sequences, FiniteSets, Bags, TLC

\* ------------------------------------------------------------------ bounds
MaxTasks == 2
MaxCalls == 3
MaxInferences == 4
MaxCacheSize == 2
MaxTime == 2
\* The TTL the cache entries are to have, in ticks of the clock.
TTL == 1
MaxBatch == 3
MaxWorkers == 2
MaxSingles == 1
MaxFrames == 4
MaxSkip == 2
MaxSelectCalls == 2

\* ModelServer(registry, cache_size=100)
DefaultCacheSize == 100
\* float('inf'), the inference time get_model takes a model without one to have
Infinity == 1000000
\* batch_size in classifier.batch_classify(images, 5, 32)
ClassifyBatchSize == 32

\* ------------------------------------------------------------------ values
Names == {"yolo_default", "resnet_default"}

\* A descriptor's metrics dict: the value under each key, Absent for a key
\* the dict does not have. Times in ms, mAP and accuracy in percent.
Absent == -1
NoMetrics == [inference_time_ms |-> Absent, mAP |-> Absent, accuracy |-> Absent]

NoModel == [type |-> "none", version |-> "none", path |-> "none", status |-> "none",
            metrics |-> NoMetrics]

\* The registry a fresh ModelRegistry holds when no catalog file exists.
DefaultRegistry ==
    [n \in Names |->
        IF n = "yolo_default"
        THEN [type |-> "yolo", version |-> "1.0.0",
              path |-> "yolov8_automotive_parts.pt", status |-> "ready",
              metrics |-> [inference_time_ms |-> 25, mAP |-> 85, accuracy |-> Absent]]
        ELSE [type |-> "resnet", version |-> "1.0.0",
              path |-> "resnet50_automotive_classifier.pth", status |-> "ready",
              metrics |-> [inference_time_ms |-> 15, mAP |-> Absent, accuracy |-> 92]]]

\* The order of the keys of the default registry's dict.
DefaultOrder == <<"yolo_default", "resnet_default">>

\* What the callers of update_model and register_model pass in.
NewPaths == {"retrained.pt"}
NewVersions == {"2.0.0"}
ModelTypes == {"yolo", "onnx"}

\* A resident model: the PartDetector / PartClassifier object, known by the
\* artifact it was constructed from.
NoHandle == [path |-> "none"]

\* An input is a numpy array: its shape and its elements in memory order.
ImgA == [shape |-> <<1, 2>>, data |-> <<1, 2>>]
ImgB == [shape |-> <<1, 2>>, data |-> <<3, 4>>]
ImgC == [shape |-> <<2, 1>>, data |-> <<1, 2>>]
NoInput == [shape |-> << >>, data |-> << >>]
Inputs == {ImgA}

\* A kwargs dict is written as the sequence of its items in the caller's order.
KwargsSet == {<< >>, << <<"confidence_threshold", 50>> >>}

NoPayload == [artifact |-> "none", input |-> NoInput, kwargs |-> << >>]

\* What a call gave its caller: the value returned or the exception raised.
NoCall == [op |-> "none", name |-> "none", outcome |-> "none", cacheHit |-> FALSE,
           payload |-> NoPayload, handle |-> NoHandle]

VARIABLES
    registry,           \* ModelRegistry.registry['models']: name -> descriptor
    catalog,            \* the catalog file model_registry.yaml
    model_order,        \* the names in registry['models'], in the dict's order
    loaded_models,      \* ModelRegistry.loaded_models: name -> handle
    cache,              \* ModelServer.cache, a dict in insertion order
    cache_size,         \* ModelServer.cache_size
    request_count,      \* ModelServer.request_count
    performance_stats,  \* ModelServer.performance_stats[name]['total_requests']
    tasks,              \* bag of the coroutines suspended in load_model's await
    budget,             \* number of calls that may still be issued
    last,               \* what the call that returned last gave its caller
    now,                \* the clock
    puts,               \* per cache key: when it was last stored, and the keys
                        \* stored since then
    reqs,               \* two requests, for the cache-key functions
    keyed,              \* the cache keys computed for them
    batch,              \* the /batch request being served
    image_tasks,        \* its images in InferenceEngine.process_batch_async
    num_workers,        \* InferenceEngine.num_workers, the size of its pool
    total_processed,    \* InferenceEngine.metrics['total_processed']
    response,           \* what /batch answered
    batch_pc,           \* where the handler of /batch and its background task are
    job,                \* the job's status and results in Redis
    single_tasks,       \* single calls of InferenceEngine.process_image_async
    image_stream,       \* the frames stream_process is given
    consumed,           \* how many of them it has taken
    skip_frames,        \* its argument skip_frames
    frame_count,        \* its local frame_count
    yielded,            \* what it has yielded
    models,             \* deployment ModelServer.models: the names it holds
    model_load_gauge,   \* model_load_gauge per model name
    health,             \* what health_check returned last
    yolo_model,         \* ModelManager.yolo_model is not None
    resnet_model,       \* ModelManager.resnet_model is not None
    ready               \* what GET /ready answered last

serverVars == <<registry, catalog, model_order, loaded_models, cache, cache_size, request_count,
                performance_stats, tasks, budget, last, now, puts>>
keyVars == <<reqs, keyed>>
batchVars == <<batch, image_tasks, num_workers, total_processed, response, batch_pc, job,
               single_tasks>>

streamVars == <<image_stream, consumed, skip_frames, frame_count, yielded>>

healthVars == <<models, model_load_gauge, health, yolo_model, resnet_model, ready>>

vars == <<serverVars, keyVars, batchVars, streamVars, healthVars>>

\* ------------------------------------------------------------------ helpers
CacheKeys(c) == {c[i].key : i \in 1..Len(c)}

CacheGet(c, k) == c[CHOOSE i \in 1..Len(c) : c[i].key = k].value

\* Alphabetical rank of the keyword names detect_parts / classify_part take.
KwRank(k) ==
    CASE k = "confidence_threshold" -> 1
      [] k = "iou_threshold" -> 2
      [] k = "top_k" -> 3
      [] OTHER -> 4

RECURSIVE SortItems(_)
\* The items of a dict in the order json.dumps(..., sort_keys=True) writes them.
SortItems(items) ==
    IF items = {} THEN << >>
    ELSE LET m == CHOOSE i \in items : \A j \in items : KwRank(i[1]) <= KwRank(j[1])
         IN <<m>> \o SortItems(items \ {m})

\* A kwargs dict (items in the caller's order) as sort_keys=True serialises it.
SortKeys(kwargs) == SortItems({kwargs[i] : i \in 1..Len(kwargs)})

\* ndarray.tobytes(): the elements in memory order; the shape is not part of it.
tobytes(x) == x.data

\* ModelServer._get_cache_key. md5 and json.dumps are taken to be injective on
\* what they are given, so the key is the structure that is hashed.
_get_cache_key(model_name, input_data, kwargs) ==
    <<model_name, SortKeys(kwargs), tobytes(input_data)>>

\* _cache_result evicting only once the cache is over its size.
_cache_result_late(c, size, key, result) ==
    LET c1 == IF Len(c) > size THEN Tail(c) ELSE c
    IN IF key \in CacheKeys(c1)
       THEN [i \in 1..Len(c1) |-> IF c1[i].key = key THEN [key |-> key, value |-> result] ELSE c1[i]]
       ELSE Append(c1, [key |-> key, value |-> result])

\* _cache_result making room in a full cache and storing nothing in it.
_cache_result_dropped(c, size, key, result) ==
    IF Len(c) >= size THEN Tail(c) ELSE Append(c, [key |-> key, value |-> result])

\* ModelServer._cache_result with cache `c` and capacity `size`: the new dict.
_cache_result(c, size, key, result) ==
    LET c1 == IF Len(c) >= size THEN Tail(c) ELSE c
    IN IF key \in CacheKeys(c1)
       THEN [i \in 1..Len(c1) |->
                IF c1[i].key = key THEN [key |-> key, value |-> result] ELSE c1[i]]
       ELSE Append(c1, [key |-> key, value |-> result])

\* What detect_parts / classify_part of handle `model` return: a function of
\* the weights, the image and the keyword arguments.
Invoke(model, input_data, kwargs) ==
    [artifact |-> model.path, input |-> input_data, kwargs |-> SortKeys(kwargs)]

\* ModelRegistry.get_loaded_model
get_loaded_model(name) == loaded_models[name]

\* ModelRegistry.get_model_info
get_model_info(name) == registry[name]

\* The part of load_model before its await, for a name that `loaded` maps to
\* what load_model finds in loaded_models.
LoadOutcome(loaded, name) ==
    IF loaded[name] # NoHandle THEN "resident"
    ELSE IF get_model_info(name) = NoModel THEN "not_found"
    ELSE IF get_model_info(name).type \notin {"yolo", "resnet"} THEN "unknown_type"
    ELSE "submitted"

\* The suspended coroutines that wait for a construction for `name`.
Loading(name) == {r \in BagToSet(tasks) : r.name = name}

\* How many of them there are.
LoadingCount(name) ==
    BagCardinality([r \in Loading(name) |-> CopiesIn(r, tasks)])

\* Is a coroutine of update_model suspended on `name`?
Updating(name) == \E r \in Loading(name) : r.op = "update_model"

Returned(op, name, outcome) ==
    [NoCall EXCEPT !.op = op, !.name = name, !.outcome = outcome]

\* A coroutine at load_model's await: `path` is str(model_path) of line 168,
\* read from the descriptor before the await.
Suspended(op, name, path, input_data, kwargs) ==
    [op |-> op, name |-> name, path |-> path, input |-> input_data, kwargs |-> kwargs]

Suspend(r) == BagCardinality(tasks) < MaxTasks /\ tasks' = tasks (+) SetToBag({r})

Resume(r) == r \in BagToSet(tasks) /\ tasks' = tasks (-) SetToBag({r})

Issue == budget > 0 /\ budget' = budget - 1

\* Every key a request of the model can have.
AllKeys == {_get_cache_key(n, x, kw) : n \in Names, x \in Inputs, kw \in KwargsSet}

NeverPut == [stored |-> FALSE, value |-> NoPayload, at |-> 0, later |-> {}]

\* The record of the puts after _cache_result(key, result) ran at time `now`:
\* `later` collects the keys inserted since, a key counting as inserted when
\* it was not in the cache before it was stored.
Put(key, result) ==
    [k \in AllKeys |->
        IF k = key THEN [stored |-> TRUE, value |-> result, at |-> now, later |-> {}]
        ELSE IF puts[k].stored /\ key \notin CacheKeys(cache)
        THEN [puts[k] EXCEPT !.later = @ \cup {key}]
        ELSE puts[k]]

\* ------------------------------------------------------------------ initial state
\* The state after ModelRegistry() and ModelServer(registry, cache_size), with
\* `n` calls to come.
ServerInit(n, sizes) ==
    /\ registry = DefaultRegistry
    /\ model_order = DefaultOrder
    /\ catalog = DefaultRegistry
    /\ loaded_models = [m \in Names |-> NoHandle]
    /\ cache = << >>
    /\ cache_size \in sizes
    /\ request_count = [m \in Names |-> 0]
    /\ performance_stats = [m \in Names |-> 0]
    /\ tasks = EmptyBag
    /\ budget = n
    /\ last = NoCall
    /\ now = 0
    /\ puts = [k \in AllKeys |-> NeverPut]

NoRequest == [model |-> "none", input |-> NoInput, kwargs |-> << >>]
NoKeys == [by |-> "none", a |-> << >>, b |-> << >>]

KeysIdle == reqs = <<NoRequest, NoRequest>> /\ keyed = NoKeys

NoBatch == [images |-> << >>, operation |-> "none", async_processing |-> FALSE]
NoResponse == [kind |-> "none", status |-> 0, results |-> << >>]
NoJob == [status |-> "none", results |-> << >>, saved |-> FALSE]

BatchIdle ==
    /\ batch = NoBatch
    /\ image_tasks = << >>
    /\ num_workers = 1
    /\ total_processed = 0
    /\ response = NoResponse
    /\ batch_pc = "idle"
    /\ job = NoJob
    /\ single_tasks = << >>

StreamIdle ==
    /\ image_stream = << >>
    /\ consumed = 0
    /\ skip_frames = 0
    /\ frame_count = 0
    /\ yielded = << >>

\* The models load_all_models is to load, and their types.
ModelConfigs == {"engine_detector", "part_classifier", "damage_assessor"}
ConfigType(name) == IF name = "part_classifier" THEN "pytorch" ELSE "onnx"

NoHealth == [status |-> "none", models_loaded |-> 0, cache_connected |-> FALSE]
NoReadiness == [ready |-> FALSE, reason |-> "none"]

\* The state after ModelServer(config) of deployment/model-server.py and
\* ModelManager(), with no health check made.
HealthIdle ==
    /\ models = {}
    /\ model_load_gauge = [m \in ModelConfigs |-> Absent]
    /\ health = NoHealth
    /\ yolo_model = FALSE
    /\ resnet_model = FALSE
    /\ ready = NoReadiness

Init == ServerInit(MaxCalls, 1..MaxCacheSize) /\ KeysIdle /\ BatchIdle /\ StreamIdle /\ HealthIdle

\* ------------------------------------------------------------------ ModelRegistry
\* register_model without its test for a name that is registered already.
register_model_overwrite(name, model_type, version, path, metrics) ==
    /\ UNCHANGED <<keyVars, batchVars, streamVars, healthVars>>
    /\ Issue
    /\ registry' = [registry EXCEPT ![name] =
                       [type |-> model_type, version |-> version,
                        path |-> path, status |-> "ready", metrics |-> metrics]]
    /\ model_order' = IF registry[name] # NoModel THEN model_order
                                                  ELSE Append(model_order, name)
    /\ catalog' = registry'
    /\ last' = Returned("register_model", name, "ok")
    /\ UNCHANGED <<loaded_models, cache, cache_size, request_count,
                   performance_stats, tasks, now, puts>>

\* register_model: synchronous, one uninterrupted step.
register_model(name, model_type, version, path, metrics) ==
    /\ UNCHANGED <<keyVars, batchVars, streamVars, healthVars>>
    /\ Issue
    /\ IF name \in {n \in Names : registry[n] # NoModel}
       THEN /\ last' = Returned("register_model", name, "ValueError")
            /\ UNCHANGED <<registry, catalog, model_order>>
       ELSE /\ registry' = [registry EXCEPT ![name] =
                               [type |-> model_type, version |-> version,
                                path |-> path, status |-> "ready", metrics |-> metrics]]
            /\ model_order' = Append(model_order, name)
            /\ catalog' = registry'
            /\ last' = Returned("register_model", name, "ok")
    /\ UNCHANGED <<loaded_models, cache, cache_size, request_count,
                   performance_stats, tasks, now, puts>>

\* unload_model emptying the resident table.
unload_model_all(loaded, name) == [m \in Names |-> NoHandle]

\* unload_model leaving the resident table as it is.
unload_model_kept(loaded, name) == loaded

\* unload_model as a function of the resident table.
unload_model(loaded, name) ==
    IF loaded[name] # NoHandle THEN [loaded EXCEPT ![name] = NoHandle] ELSE loaded

\* unregister_model: synchronous; returns None whether or not the name exists.
\* `last` keeps the handle that was resident when it was called.
unregister_model(name) ==
    /\ UNCHANGED <<keyVars, batchVars, streamVars, healthVars>>
    /\ Issue
    /\ IF registry[name] # NoModel
       THEN /\ loaded_models' = unload_model(loaded_models, name)
            /\ registry' = [registry EXCEPT ![name] = NoModel]
            /\ model_order' = SelectSeq(model_order, LAMBDA n : n # name)
            /\ catalog' = registry'
       ELSE UNCHANGED <<loaded_models, registry, catalog, model_order>>
    /\ last' = [Returned("unregister_model", name, "ok") EXCEPT !.handle = loaded_models[name]]
    /\ UNCHANGED <<cache, cache_size, request_count, performance_stats, tasks, now, puts>>

\* A direct call of unload_model.
UnloadModelCall(name) ==
    /\ UNCHANGED <<keyVars, batchVars, streamVars, healthVars>>
    /\ Issue
    /\ loaded_models' = unload_model(loaded_models, name)
    /\ last' = Returned("unload_model", name, "ok")
    /\ UNCHANGED <<registry, catalog, model_order, cache, cache_size, request_count,
                   performance_stats, tasks, now, puts>>

\* load_model called on its own, up to its await (or to its return).
LoadModelCall(name) ==
    /\ UNCHANGED <<keyVars, batchVars, streamVars, healthVars>>
    /\ Issue
    /\ LET o == LoadOutcome(loaded_models, name) IN
       CASE o = "resident" ->
              /\ last' = [Returned("load_model", name, "ok") EXCEPT
                             !.handle = loaded_models[name]]
              /\ UNCHANGED tasks
         [] o = "submitted" ->
              /\ Suspend(Suspended("load_model", name, registry[name].path,
                                   NoInput, << >>))
              /\ UNCHANGED last
         [] OTHER ->
              /\ last' = Returned("load_model", name, "ValueError")
              /\ UNCHANGED tasks
    /\ UNCHANGED <<registry, catalog, model_order, loaded_models, cache, cache_size,
                   request_count, performance_stats, now, puts>>

\* The handle _load_yolo_model / _load_resnet_model build for coroutine r.
Built(r) == [path |-> r.path]

\* loaded_models after the tail of load_model (lines 188-191) ran in r.
Install(r) == [loaded_models EXCEPT ![r.name] = Built(r)]

\* load_model after its await: the executor built the model (`built`) or the
\* constructor raised.
LoadModelResume(r, built) ==
    /\ UNCHANGED <<keyVars, batchVars, streamVars, healthVars>>
    /\ r.op = "load_model"
    /\ Resume(r)
    /\ IF built
       THEN /\ loaded_models' = Install(r)
            /\ last' = [Returned("load_model", r.name, "ok") EXCEPT !.handle = Built(r)]
       ELSE /\ last' = Returned("load_model", r.name, "RuntimeError")
            /\ UNCHANGED loaded_models
    /\ UNCHANGED <<registry, catalog, model_order, cache, cache_size, request_count,
                   performance_stats, budget, now, puts>>

\* update_model up to the await of its reload (or to its return). `copied`:
\* both shutil.copy calls succeeded.
UpdateModelCall(name, new_path, new_version, copied) ==
    /\ UNCHANGED <<keyVars, batchVars, streamVars, healthVars>>
    /\ Issue
    /\ IF get_model_info(name) = NoModel
       THEN /\ last' = Returned("update_model", name, "ValueError")
            /\ UNCHANGED <<registry, catalog, model_order, loaded_models, tasks>>
       ELSE IF ~copied
       THEN /\ last' = Returned("update_model", name, "OSError")
            /\ UNCHANGED <<registry, catalog, model_order, loaded_models, tasks>>
       ELSE /\ registry' = [registry EXCEPT ![name].path = new_path,
                                            ![name].version = new_version]
            /\ catalog' = registry'
            /\ loaded_models' = unload_model(loaded_models, name)
            /\ IF loaded_models[name] = NoHandle
               THEN /\ last' = Returned("update_model", name, "ok")
                    /\ UNCHANGED tasks
               ELSE IF registry[name].type \notin {"yolo", "resnet"}
               THEN /\ last' = Returned("update_model", name, "ValueError")
                    /\ UNCHANGED tasks
               ELSE /\ Suspend(Suspended("update_model", name, new_path, NoInput, << >>))
                    /\ UNCHANGED last
    /\ UNCHANGED <<model_order, cache, cache_size, request_count, performance_stats, now, puts>>

\* update_model after the await of load_model.
UpdateModelResume(r, built) ==
    /\ UNCHANGED <<keyVars, batchVars, streamVars, healthVars>>
    /\ r.op = "update_model"
    /\ Resume(r)
    /\ IF built
       THEN /\ loaded_models' = Install(r)
            /\ last' = Returned("update_model", r.name, "ok")
       ELSE /\ last' = Returned("update_model", r.name, "RuntimeError")
            /\ UNCHANGED loaded_models
    /\ UNCHANGED <<registry, catalog, model_order, cache, cache_size, request_count,
                   performance_stats, budget, now, puts>>

\* ------------------------------------------------------------------ ModelServer
\* inference from "Track request" to its return (lines 360-385), run with
\* handle `model`; `invoked`: detect_parts / classify_part returned normally.
RunInference(name, input_data, kwargs, model, invoked) ==
    LET key == _get_cache_key(name, input_data, kwargs)
        result == Invoke(model, input_data, kwargs)
        ret == [Returned("inference", name, "ok") EXCEPT !.handle = model]
    IN /\ request_count' = [request_count EXCEPT ![name] = @ + 1]
       /\ IF invoked
          THEN /\ performance_stats' = [performance_stats EXCEPT ![name] = @ + 1]
               /\ cache' = _cache_result(cache, cache_size, key, result)
               /\ puts' = Put(key, result)
               /\ last' = [ret EXCEPT !.payload = result]
          ELSE /\ last' = [ret EXCEPT !.outcome = "RuntimeError"]
               /\ UNCHANGED <<performance_stats, cache, puts>>

\* inference up to the await of load_model, or to its return when the result
\* is cached or the model is resident.
InferenceCall(model_name, input_data, kwargs, invoked) ==
    /\ UNCHANGED <<keyVars, batchVars, streamVars, healthVars>>
    /\ Issue
    /\ LET cache_key == _get_cache_key(model_name, input_data, kwargs)
           model == get_loaded_model(model_name)
       IN IF cache_key \in CacheKeys(cache)
          THEN /\ last' = [Returned("inference", model_name, "ok") EXCEPT
                              !.cacheHit = TRUE,
                              !.payload = CacheGet(cache, cache_key)]
               /\ UNCHANGED <<tasks, request_count, performance_stats, cache, puts>>
          ELSE IF model # NoHandle
          THEN /\ RunInference(model_name, input_data, kwargs, model, invoked)
               /\ UNCHANGED tasks
          ELSE IF LoadOutcome(loaded_models, model_name) = "submitted"
          THEN /\ Suspend(Suspended("inference", model_name,
                                    registry[model_name].path, input_data, kwargs))
               /\ UNCHANGED <<last, request_count, performance_stats, cache, puts>>
          ELSE /\ last' = Returned("inference", model_name, "ValueError")
               /\ UNCHANGED <<tasks, request_count, performance_stats, cache, puts>>
    /\ UNCHANGED <<registry, catalog, model_order, loaded_models, cache_size, now>>

\* inference after the await of load_model.
InferenceResume(r, built, invoked) ==
    /\ UNCHANGED <<keyVars, batchVars, streamVars, healthVars>>
    /\ r.op = "inference"
    /\ Resume(r)
    /\ IF built
       THEN /\ loaded_models' = Install(r)
            /\ RunInference(r.name, r.input, r.kwargs, Built(r), invoked)
       ELSE /\ last' = Returned("inference", r.name, "RuntimeError")
            /\ UNCHANGED <<loaded_models, request_count, performance_stats, cache, puts>>
    /\ UNCHANGED <<registry, catalog, model_order, cache_size, budget, now>>

\* ------------------------------------------------------------------ specification
Next ==
    \/ \E n \in Names, ty \in ModelTypes :
          register_model(n, ty, "1.0.0", DefaultRegistry[n].path, NoMetrics)
    \/ \E n \in Names : unregister_model(n)
    \/ \E n \in Names : UnloadModelCall(n)
    \/ \E n \in Names : LoadModelCall(n)
    \/ \E r \in BagToSet(tasks), b \in BOOLEAN : LoadModelResume(r, b)
    \/ \E n \in Names, p \in NewPaths, v \in NewVersions, c \in BOOLEAN :
          UpdateModelCall(n, p, v, c)
    \/ \E r \in BagToSet(tasks), b \in BOOLEAN : UpdateModelResume(r, b)
    \/ \E n \in Names, x \in Inputs, kw \in KwargsSet, i \in BOOLEAN :
          InferenceCall(n, x, kw, i)
    \/ \E r \in BagToSet(tasks), b \in BOOLEAN, i \in BOOLEAN : InferenceResume(r, b, i)

Spec == Init /\ [][Next]_vars

\* The server under inference calls alone, with a larger budget of calls.
InitServe == ServerInit(MaxInferences, 1..MaxCacheSize) /\ KeysIdle /\ BatchIdle /\ StreamIdle /\ HealthIdle

NextServe ==
    \/ \E n \in Names, x \in Inputs, kw \in KwargsSet, i \in BOOLEAN :
          InferenceCall(n, x, kw, i)
    \/ \E r \in BagToSet(tasks), b \in BOOLEAN, i \in BOOLEAN : InferenceResume(r, b, i)

SpecServe == InitServe /\ [][NextServe]_vars

\* Time passes.
Tick ==
    /\ UNCHANGED <<keyVars, batchVars, streamVars, healthVars>>
    /\ now < MaxTime
    /\ now' = now + 1
    /\ UNCHANGED <<registry, catalog, model_order, loaded_models, cache, cache_size, request_count,
                   performance_stats, tasks, budget, last, puts>>

NextTimed == NextServe \/ Tick

\* The server under inference calls while time passes.
SpecTimed == Init /\ [][NextTimed]_vars

\* ------------------------------------------------------------------ cache keys
\* The requests the key functions are tried on: arrays that differ in their
\* elements or in their shape only, and kwargs that differ in a value, in the
\* names given or in the order of the items only.
KeyInputs == {ImgA, ImgB, ImgC}
KeyKwargs ==
    { << >>,
      << <<"confidence_threshold", 50>> >>,
      << <<"confidence_threshold", 90>> >>,
      << <<"confidence_threshold", 50>>, <<"iou_threshold", 45>> >>,
      << <<"iou_threshold", 45>>, <<"confidence_threshold", 50>> >> }
Requests == [model : Names, input : KeyInputs, kwargs : KeyKwargs]

\* ModelServer._generate_cache_key of deployment/model-server.py; hash() is
\* taken to be injective on the bytes it is given.
_generate_cache_key(model_name, image_data) ==
    <<"inference", model_name, tobytes(image_data)>>

InitKeys == ServerInit(0, {DefaultCacheSize}) /\ BatchIdle /\ StreamIdle /\ HealthIdle /\ reqs \in Requests \X Requests /\ keyed = NoKeys

\* inference of model_loader.py computes the key of each request.
GetCacheKeys ==
    /\ keyed = NoKeys
    /\ keyed' = [by |-> "_get_cache_key",
                 a |-> _get_cache_key(reqs[1].model, reqs[1].input, reqs[1].kwargs),
                 b |-> _get_cache_key(reqs[2].model, reqs[2].input, reqs[2].kwargs)]
    /\ UNCHANGED <<reqs, serverVars, batchVars, streamVars, healthVars>>

\* predict of deployment/model-server.py computes the key of each request.
GenerateCacheKeys ==
    /\ keyed = NoKeys
    /\ keyed' = [by |-> "_generate_cache_key",
                 a |-> _generate_cache_key(reqs[1].model, reqs[1].input),
                 b |-> _generate_cache_key(reqs[2].model, reqs[2].input)]
    /\ UNCHANGED <<reqs, serverVars, batchVars, streamVars, healthVars>>

NextKeys == GetCacheKeys \/ GenerateCacheKeys

SpecKeys == InitKeys /\ [][NextKeys]_vars

\* ------------------------------------------------------------------ /batch
\* An image of a batch request: one that decodes and is processed, one that
\* cv2.imdecode rejects, and one that decodes but on which detection or
\* preprocessing raises.
ImageKinds == {"good", "corrupt", "hard"}
Operations == {"detect", "classify", "segment"}

RECURSIVE SeqsUpTo(_, _)
SeqsUpTo(S, n) ==
    IF n = 0 THEN {<< >>}
    ELSE LET shorter == SeqsUpTo(S, n - 1)
         IN shorter \cup {Append(q, x) : q \in {r \in shorter : Len(r) = n - 1}, x \in S}

BatchRequests ==
    [images : SeqsUpTo(ImageKinds, MaxBatch), operation : Operations,
     async_processing : BOOLEAN]

\* decode_image raises HTTPException(400) on these.
Undecodable(img) == img.kind = "corrupt"

\* The request's images with their positions in the request.
Numbered(images) == [i \in 1..Len(images) |-> [kind |-> images[i], pos |-> i]]

\* An entry of a result list: `of` is the position in the request of the image
\* it was computed from, `index` the 'index' field of an error entry (0-based,
\* -1 when the entry has none).
OkEntry(img) == [status |-> "ok", of |-> img.pos, index |-> -1]
ErrorEntry(img, i) == [status |-> "error", of |-> img.pos, index |-> i]

\* InferenceEngine.process_batch_async up to its gather: one task per image,
\* each run to its run_in_executor.
SubmitAll(images) ==
    [i \in 1..Len(images) |->
        [image |-> images[i], state |-> "submitted", ticket |-> Len(single_tasks) + i]]

Running == {i \in 1..Len(image_tasks) : image_tasks[i].state = "running"}
Submitted == {i \in 1..Len(image_tasks) : image_tasks[i].state = "submitted"}
Finished == {i \in 1..Len(image_tasks) : image_tasks[i].state \in {"ok", "error"}}
SinglesRunning == {j \in 1..Len(single_tasks) : single_tasks[j].state = "running"}
SinglesSubmitted == {j \in 1..Len(single_tasks) : single_tasks[j].state = "submitted"}

\* The tickets of the calls waiting in the executor's queue, which is FIFO.
Waiting ==
    {image_tasks[i].ticket : i \in Submitted} \cup {single_tasks[j].ticket : j \in SinglesSubmitted}

\* An executor that starts a thread for every call it is given.
IdleWorker_unbounded == TRUE

\* ThreadPoolExecutor(max_workers=num_workers) has a thread to run a call on.
IdleWorker == Cardinality(Running) + Cardinality(SinglesRunning) < num_workers

\* The rest of process_batch_async: the results of gather in the order of the
\* tasks, exceptions replaced by error entries.
processed_results ==
    [i \in 1..Len(image_tasks) |->
        IF image_tasks[i].state = "error"
        THEN ErrorEntry(image_tasks[i].image, i - 1)
        ELSE OkEntry(image_tasks[i].image)]

\* a[from..to] of a sequence
Slice(a, from, to) == [i \in 1..(IF to >= from THEN to - from + 1 ELSE 0) |-> a[from + i - 1]]

RECURSIVE batch_classify(_, _)
\* PartClassifier.batch_classify: for each chunk of batch_size images, an
\* error entry for every image whose preprocessing raises, then a prediction
\* for every other image of the chunk.
batch_classify(images, batch_size) ==
    IF images = << >> THEN << >>
    ELSE LET n == IF Len(images) < batch_size THEN Len(images) ELSE batch_size
             batch_images == Slice(images, 1, n)
             failed == SelectSeq(batch_images, LAMBDA img : img.kind = "hard")
             batch_tensors == SelectSeq(batch_images, LAMBDA img : img.kind # "hard")
         IN [i \in 1..Len(failed) |-> ErrorEntry(failed[i], -1)]
            \o [i \in 1..Len(batch_tensors) |-> OkEntry(batch_tensors[i])]
            \o batch_classify(Slice(images, n + 1, Len(images)), batch_size)

InitBatch ==
    /\ ServerInit(0, {DefaultCacheSize})
    /\ KeysIdle
    /\ StreamIdle /\ HealthIdle
    /\ batch \in BatchRequests
    /\ image_tasks = << >>
    /\ num_workers \in 1..MaxWorkers
    /\ total_processed = 0
    /\ response = NoResponse
    /\ batch_pc = "idle"
    /\ job = NoJob
    /\ single_tasks = << >>

\* The images process_batch_background keeps: those decode_image accepts.
decoded_images(images) == SelectSeq(images, LAMBDA img : ~Undecodable(img))

HttpError(code) == [kind |-> "http_error", status |-> code, results |-> << >>]

\* POST /batch, up to the handler's first await or to its return.
batch_process ==
    /\ batch_pc = "idle"
    /\ IF batch.async_processing
       THEN /\ response' = [kind |-> "job", status |-> 200, results |-> << >>]
            /\ batch_pc' = "background"
            /\ UNCHANGED image_tasks
       ELSE LET images == Numbered(batch.images)
            IN IF \E i \in 1..Len(images) : Undecodable(images[i])
               THEN /\ response' = HttpError(400)
                    /\ batch_pc' = "done"
                    /\ UNCHANGED image_tasks
               ELSE IF batch.operation = "detect"
               THEN /\ image_tasks' = SubmitAll(images)
                    /\ batch_pc' = "gather"
                    /\ UNCHANGED response
               ELSE IF batch.operation = "classify"
               THEN /\ batch_pc' = "classify"
                    /\ UNCHANGED <<response, image_tasks>>
               ELSE /\ response' = HttpError(400)
                    /\ batch_pc' = "done"
                    /\ UNCHANGED image_tasks
    /\ UNCHANGED <<batch, num_workers, total_processed, job, single_tasks, serverVars, keyVars, streamVars, healthVars>>

\* The background task announcing the job as completed when it starts.
process_batch_background_early ==
    /\ batch_pc = "background"
    /\ LET decoded == decoded_images(Numbered(batch.images))
       IN IF batch.operation = "detect"
          THEN /\ image_tasks' = SubmitAll(decoded)
               /\ batch_pc' = "bg_gather"
               /\ job' = [job EXCEPT !.status = "completed"]
          ELSE IF batch.operation = "classify"
          THEN /\ batch_pc' = "bg_classify"
               /\ job' = [job EXCEPT !.status = "completed"]
               /\ UNCHANGED image_tasks
          ELSE /\ batch_pc' = "done"
               /\ job' = [job EXCEPT !.status = "failed"]
               /\ UNCHANGED image_tasks
    /\ UNCHANGED <<batch, num_workers, total_processed, response, single_tasks, serverVars, keyVars, streamVars, healthVars>>

\* The background task, up to its await of the batch.
process_batch_background ==
    /\ batch_pc = "background"
    /\ LET decoded == decoded_images(Numbered(batch.images))
       IN IF batch.operation = "detect"
          THEN /\ image_tasks' = SubmitAll(decoded)
               /\ batch_pc' = "bg_gather"
               /\ job' = [job EXCEPT !.status = "processing"]
          ELSE IF batch.operation = "classify"
          THEN /\ batch_pc' = "bg_classify"
               /\ job' = [job EXCEPT !.status = "processing"]
               /\ UNCHANGED image_tasks
          ELSE /\ batch_pc' = "done"
               /\ job' = [job EXCEPT !.status = "failed"]
               /\ UNCHANGED image_tasks
    /\ UNCHANGED <<batch, num_workers, total_processed, response, single_tasks, serverVars, keyVars, streamVars, healthVars>>

\* A thread of InferenceEngine.executor takes the oldest submitted detection.
WorkerStart(i) ==
    /\ i \in Submitted
    /\ \A t \in Waiting : image_tasks[i].ticket <= t
    /\ IdleWorker
    /\ image_tasks' = [image_tasks EXCEPT ![i].state = "running"]
    /\ UNCHANGED <<batch, num_workers, total_processed, response, batch_pc, job,
                   single_tasks, serverVars, keyVars, streamVars, healthVars>>

\* _detect_sync returns or raises and process_image_async runs to its end.
process_image_async(i) ==
    /\ i \in Running
    /\ IF image_tasks[i].image.kind = "hard"
       THEN /\ image_tasks' = [image_tasks EXCEPT ![i].state = "error"]
            /\ UNCHANGED total_processed
       ELSE /\ image_tasks' = [image_tasks EXCEPT ![i].state = "ok"]
            /\ total_processed' = total_processed + 1
    /\ UNCHANGED <<batch, num_workers, response, batch_pc, job, single_tasks, serverVars, keyVars, streamVars, healthVars>>

\* gather returns: process_batch_async builds its list and its caller goes on.
process_batch_async ==
    /\ batch_pc \in {"gather", "bg_gather"}
    /\ Finished = 1..Len(image_tasks)
    /\ IF batch_pc = "gather"
       THEN /\ response' = [kind |-> "results", status |-> 200, results |-> processed_results]
            /\ batch_pc' = "done"
            /\ UNCHANGED job
       ELSE /\ job' = [job EXCEPT !.results = processed_results, !.saved = TRUE]
            /\ batch_pc' = "bg_saved"
            /\ UNCHANGED response
    /\ UNCHANGED <<batch, image_tasks, num_workers, total_processed, single_tasks, serverVars, keyVars, streamVars, healthVars>>

\* classifier.batch_classify returns from the executor.
BatchClassify ==
    /\ batch_pc \in {"classify", "bg_classify"}
    /\ IF batch_pc = "classify"
       THEN /\ response' = [kind |-> "results", status |-> 200,
                            results |-> batch_classify(Numbered(batch.images), ClassifyBatchSize)]
            /\ batch_pc' = "done"
            /\ UNCHANGED job
       ELSE /\ job' = [job EXCEPT
                         !.results = batch_classify(decoded_images(Numbered(batch.images)),
                                                    ClassifyBatchSize),
                         !.saved = TRUE]
            /\ batch_pc' = "bg_saved"
            /\ UNCHANGED response
    /\ UNCHANGED <<batch, image_tasks, num_workers, total_processed, single_tasks, serverVars, keyVars, streamVars, healthVars>>

\* The background task records the job as completed, after its results.
JobCompleted ==
    /\ batch_pc = "bg_saved"
    /\ job' = [job EXCEPT !.status = "completed"]
    /\ batch_pc' = "done"
    /\ UNCHANGED <<batch, image_tasks, num_workers, total_processed, response,
                   single_tasks, serverVars, keyVars, streamVars, healthVars>>

\* A single call of process_image_async on an image of kind `kind`, up to its
\* run_in_executor; it raises ValueError at once when the image is None.
SingleCall(kind) ==
    /\ Len(single_tasks) < MaxSingles
    /\ single_tasks' = Append(single_tasks,
          [image |-> [kind |-> kind, pos |-> 0],
           state |-> IF kind = "corrupt" THEN "error" ELSE "submitted",
           ticket |-> Len(image_tasks) + Len(single_tasks) + 1])
    /\ UNCHANGED <<batch, image_tasks, num_workers, total_processed, response, batch_pc,
                   job, serverVars, keyVars, streamVars, healthVars>>

\* A thread of InferenceEngine.executor takes a single call, the oldest waiting.
SingleWorkerStart(j) ==
    /\ j \in SinglesSubmitted
    /\ \A t \in Waiting : single_tasks[j].ticket <= t
    /\ IdleWorker
    /\ single_tasks' = [single_tasks EXCEPT ![j].state = "running"]
    /\ UNCHANGED <<batch, image_tasks, num_workers, total_processed, response, batch_pc,
                   job, serverVars, keyVars, streamVars, healthVars>>

\* _detect_sync returns or raises in a single call, which runs to its end.
SingleReturn(j) ==
    /\ j \in SinglesRunning
    /\ IF single_tasks[j].image.kind = "hard"
       THEN /\ single_tasks' = [single_tasks EXCEPT ![j].state = "error"]
            /\ UNCHANGED total_processed
       ELSE /\ single_tasks' = [single_tasks EXCEPT ![j].state = "ok"]
            /\ total_processed' = total_processed + 1
    /\ UNCHANGED <<batch, image_tasks, num_workers, response, batch_pc, job,
                   serverVars, keyVars, streamVars, healthVars>>

NextBatch ==
    \/ batch_process
    \/ process_batch_background
    \/ \E i \in 1..MaxBatch : WorkerStart(i)
    \/ \E i \in 1..MaxBatch : process_image_async(i)
    \/ process_batch_async
    \/ BatchClassify
    \/ JobCompleted
    \/ \E kind \in ImageKinds : SingleCall(kind)
    \/ \E j \in 1..MaxSingles : SingleWorkerStart(j)
    \/ \E j \in 1..MaxSingles : SingleReturn(j)

SpecBatch == InitBatch /\ [][NextBatch]_vars

\* ------------------------------------------------------------------ stream_process
\* A frame of a stream: "corrupt" is a frame cv2 could not read (None), on
\* which process_image_async raises ValueError.
Streams == SeqsUpTo(ImageKinds, MaxFrames)

InitStream ==
    /\ ServerInit(0, {DefaultCacheSize})
    /\ KeysIdle
    /\ BatchIdle
    /\ HealthIdle
    /\ image_stream \in Streams
    /\ consumed = 0
    /\ skip_frames \in 0..MaxSkip
    /\ frame_count = 0
    /\ yielded = << >>

\* The swapped test a frame counts as skipped under: every frame but one in
\* skip is processed.
Skipped_others(count, skip) == skip > 0 /\ count % (skip + 1) = 0

\* The test of stream_process for leaving a frame out.
Skipped(count, skip) == skip > 0 /\ count % (skip + 1) # 0

\* What stream_process yields for frame number `count`, the n-th of the source.
Yield(frame, n, count) ==
    IF frame = "good"
    THEN [status |-> "ok", of |-> n, frame |-> -1]
    ELSE [status |-> "error", of |-> n, frame |-> count]

\* One turn of the loop of stream_process: the next frame is taken from the
\* source and is skipped, or processed and its result or error yielded.
stream_process ==
    /\ consumed < Len(image_stream)
    /\ consumed' = consumed + 1
    /\ frame_count' = frame_count + 1
    /\ IF Skipped(frame_count, skip_frames)
       THEN UNCHANGED yielded
       ELSE yielded' = Append(yielded, Yield(image_stream[consumed + 1], consumed + 1, frame_count))
    /\ UNCHANGED <<image_stream, skip_frames, serverVars, keyVars, batchVars, healthVars>>

NextStream == stream_process

SpecStream == InitStream /\ [][NextStream]_vars

\* ------------------------------------------------------------------ get_model
\* The registries get_model is tried on: what register_model calls, or a
\* catalog file read by _load_registry, can have put under each name.
SelectTypes == {"yolo", "resnet"}
SelectVersions == {"1.0.0", "2.0.0"}
SelectStatuses == {"ready", "deprecated"}
MetricsSet ==
    { NoMetrics,
      [inference_time_ms |-> 10, mAP |-> 80, accuracy |-> 90],
      [inference_time_ms |-> 50, mAP |-> 90, accuracy |-> 80],
      [inference_time_ms |-> Absent, mAP |-> 90, accuracy |-> 80] }
Descriptors ==
    {[type |-> ty, version |-> v, path |-> "weights.pt", status |-> st, metrics |-> m] :
        ty \in SelectTypes, v \in SelectVersions, st \in SelectStatuses, m \in MetricsSet}

\* version=None
NoVersion == "none"

\* The orders a dict with the names of `reg` can have.
Orders(reg) ==
    LET registered == {n \in Names : reg[n] # NoModel}
    IN {q \in SeqsUpTo(Names, Cardinality(Names)) :
           /\ Len(q) = Cardinality(registered)
           /\ {q[i] : i \in 1..Len(q)} = registered}

InitSelect ==
    /\ registry \in [Names -> Descriptors \cup {NoModel}]
    /\ catalog = registry
    /\ model_order \in Orders(registry)
    /\ loaded_models = [m \in Names |-> NoHandle]
    /\ cache = << >>
    /\ cache_size = DefaultCacheSize
    /\ request_count = [m \in Names |-> 0]
    /\ performance_stats = [m \in Names |-> 0]
    /\ tasks = EmptyBag
    /\ budget = MaxSelectCalls
    /\ last = NoCall
    /\ now = 0
    /\ puts = [k \in AllKeys |-> NeverPut]
    /\ KeysIdle /\ BatchIdle /\ StreamIdle /\ HealthIdle

\* A key under which every candidate is as good as every other.
SortKey_flat(name, model_type, prefer_fast) == 0

\* The key sorted() orders the candidates by, smallest first: the inference
\* time, or the mAP / accuracy negated (reverse=True).
SortKey(name, model_type, prefer_fast) ==
    LET metrics == registry[name].metrics
        metric_key == IF model_type = "yolo" THEN metrics.mAP ELSE metrics.accuracy
    IN IF prefer_fast
       THEN IF metrics.inference_time_ms = Absent THEN Infinity ELSE metrics.inference_time_ms
       ELSE IF metric_key = Absent THEN 0 ELSE 0 - metric_key

\* sorted(...)[0][0]: sorted is stable, so among the candidates with the best
\* key the one that comes first in the dict.
SortedFirst(candidates, model_type, prefer_fast) ==
    LET i == CHOOSE i \in 1..Len(candidates) :
                /\ \A j \in 1..Len(candidates) :
                      SortKey(candidates[i], model_type, prefer_fast)
                         <= SortKey(candidates[j], model_type, prefer_fast)
                /\ \A j \in 1..(i - 1) :
                      SortKey(candidates[j], model_type, prefer_fast)
                         # SortKey(candidates[i], model_type, prefer_fast)
    IN candidates[i]

\* ModelServer.get_model
get_model(model_type, version, prefer_fast) ==
    /\ UNCHANGED <<keyVars, batchVars, streamVars, healthVars>>
    /\ Issue
    /\ LET of_type == SelectSeq(model_order, LAMBDA n :
                         registry[n].type = model_type /\ registry[n].status = "ready")
           candidates == IF version = NoVersion THEN of_type
                         ELSE SelectSeq(of_type, LAMBDA n : registry[n].version = version)
       IN IF of_type = << >> \/ candidates = << >>
          THEN last' = Returned("get_model", "none", "ValueError")
          ELSE last' = Returned("get_model",
                                SortedFirst(candidates, model_type, prefer_fast), "ok")
    /\ UNCHANGED <<registry, catalog, model_order, loaded_models, cache, cache_size,
                   request_count, performance_stats, tasks, now, puts>>

NextSelect ==
    \/ \E ty \in SelectTypes, v \in SelectVersions \cup {NoVersion}, fast \in BOOLEAN :
          get_model(ty, v, fast)
    \/ \E n \in Names, ty \in SelectTypes, m \in MetricsSet :
          register_model(n, ty, "1.0.0", "weights.pt", m)

SpecSelect == InitSelect /\ [][NextSelect]_vars

\* ------------------------------------------------------------------ crash in _save_registry
\* The registries _save_registry is called to write by the mutating
\* operations that can be made in the current state: register_model of a new
\* name, unregister_model of a registered one, update_model of a registered one.
Saves ==
    {[registry EXCEPT ![n] = [type |-> ty, version |-> "1.0.0",
                              path |-> DefaultRegistry[n].path, status |-> "ready",
                              metrics |-> NoMetrics]] :
        n \in {m \in Names : registry[m] = NoModel}, ty \in ModelTypes}
    \cup {[registry EXCEPT ![n] = NoModel] : n \in {m \in Names : registry[m] # NoModel}}
    \cup {[registry EXCEPT ![n].path = p, ![n].version = v] :
            n \in {m \in Names : registry[m] # NoModel}, p \in NewPaths, v \in NewVersions}

\* The names of `reg` in the order yaml.dump writes a dict: sorted.
DumpOrder(reg) ==
    SelectSeq(<<"resnet_default", "yolo_default">>, LAMBDA n : reg[n] # NoModel)

\* The catalog file after open(config_file, 'w') truncated it and yaml.dump
\* got `written` of the entries of `reg` to the file.
Flushed(reg, written) ==
    [n \in Names |->
        IF \E i \in 1..written : DumpOrder(reg)[i] = n THEN reg[n] ELSE NoModel]

\* The process dies in _save_registry while it writes `reg`, and a new process
\* starts: ModelRegistry() reads the catalog the crash left, ModelServer()
\* starts with an empty cache.
CrashInSave(reg, written) ==
    /\ UNCHANGED <<keyVars, batchVars, streamVars, healthVars>>
    /\ Issue
    /\ catalog' = Flushed(reg, written)
    /\ registry' = catalog'
    /\ model_order' = DumpOrder(catalog')
    /\ loaded_models' = [m \in Names |-> NoHandle]
    /\ cache' = << >>
    /\ request_count' = [m \in Names |-> 0]
    /\ performance_stats' = [m \in Names |-> 0]
    /\ tasks' = EmptyBag
    /\ puts' = [k \in AllKeys |-> NeverPut]
    /\ last' = Returned("crash", "none", "none")
    /\ UNCHANGED <<cache_size, now>>

NextCrash ==
    \/ \E n \in Names, ty \in ModelTypes :
          register_model(n, ty, "1.0.0", DefaultRegistry[n].path, NoMetrics)
    \/ \E n \in Names : unregister_model(n)
    \/ \E n \in Names, p \in NewPaths, v \in NewVersions, c \in BOOLEAN :
          UpdateModelCall(n, p, v, c)
    \/ \E reg \in Saves : \E written \in 0..Len(DumpOrder(reg)) : CrashInSave(reg, written)

\* The registry under mutating operations and crashes during their saves.
SpecCrash == Init /\ [][NextCrash]_vars

\* ------------------------------------------------------------------ health
\* ModelServer.load_all_models of deployment/model-server.py, called once by
\* initialize: load_model has no await that suspends, so the loop is one
\* uninterrupted stretch. `ok[m]`: load_model of m returned normally; a
\* failure is logged and the loop goes on.
load_all_models(ok) ==
    /\ model_load_gauge = [m \in ModelConfigs |-> Absent]
    /\ models' = models \cup {m \in ModelConfigs : ok[m]}
    /\ model_load_gauge' = [m \in ModelConfigs |-> IF ok[m] THEN 1 ELSE 0]
    /\ UNCHANGED <<health, yolo_model, resnet_model, ready,
                   serverVars, keyVars, batchVars, streamVars>>

\* ModelServer.health_check; `pinged`: redis_client.ping() returned.
health_check(pinged) ==
    /\ health' = [status |-> IF Cardinality(models) = 0 THEN "unhealthy"
                             ELSE IF ~pinged THEN "degraded"
                             ELSE "healthy",
                  models_loaded |-> Cardinality(models),
                  cache_connected |-> pinged]
    /\ UNCHANGED <<models, model_load_gauge, yolo_model, resnet_model, ready,
                   serverVars, keyVars, batchVars, streamVars>>

\* ModelServer.cleanup
cleanup ==
    /\ models # {}
    /\ models' = {}
    /\ UNCHANGED <<model_load_gauge, health, yolo_model, resnet_model, ready,
                   serverVars, keyVars, batchVars, streamVars>>

\* How far ModelManager.load_models gets before it raises (or returns).
LoadOutcomes == {"yolo_raised", "resnet_raised", "state_dict_raised", "ok"}

\* ModelManager.load_models of app/core/model_manager.py: yolo_model is
\* assigned first, resnet_model next, before eval() and load_state_dict().
load_models(outcome) ==
    /\ yolo_model' = (yolo_model \/ outcome # "yolo_raised")
    /\ resnet_model' = (resnet_model \/ outcome \in {"state_dict_raised", "ok"})
    /\ UNCHANGED <<models, model_load_gauge, health, ready,
                   serverVars, keyVars, batchVars, streamVars>>

\* readiness_check of app/api/health.py. ModelManager defines no is_ready:
\* the call raises AttributeError inside the try, and the handler answers
\* from its except clause before it reaches the database or Redis.
readiness_check ==
    /\ ready' = [ready |-> FALSE, reason |-> "AttributeError"]
    /\ UNCHANGED <<models, model_load_gauge, health, yolo_model, resnet_model,
                   serverVars, keyVars, batchVars, streamVars>>

InitHealth ==
    /\ ServerInit(0, {DefaultCacheSize})
    /\ KeysIdle /\ BatchIdle /\ StreamIdle /\ HealthIdle

NextHealth ==
    \/ \E ok \in [ModelConfigs -> BOOLEAN] : load_all_models(ok)
    \/ \E pinged \in BOOLEAN : health_check(pinged)
    \/ cleanup
    \/ \E o \in LoadOutcomes : load_models(o)
    \/ readiness_check

SpecHealth == InitHealth /\ [][NextHealth]_vars

\* ------------------------------------------------------------------ claims
\* The step is a call of inference on `name` returning to its caller.
InferenceReturns(name) ==
    \/ \E x \in Inputs, kw \in KwargsSet, i \in BOOLEAN :
          InferenceCall(name, x, kw, i) /\ tasks' = tasks
    \/ \E r \in Loading(name), b \in BOOLEAN, i \in BOOLEAN : InferenceResume(r, b, i)

\* C1: concurrent load requests for a name that is not resident lead to one
\* construction only: at most one coroutine is ever between load_model's
\* submission of the construction and its result, for any one name.
C1_SingleFlight == \A n \in Names : LoadingCount(n) <= 1

\* C2: while update_model runs on a model that was resident, the name has a
\* resident handle in every intermediate state.
C2_NoServiceGap == \A n \in Names : Updating(n) => loaded_models[n] # NoHandle

\* C3: an inference call in flight across an update completes with the handle
\* it started with, and an inference call that starts when no update of its
\* model is in flight and invokes the model is served by the handle of the
\* artifact the registry records for it.
C3_UpdateHandles ==
    [][/\ \A r \in BagToSet(tasks), i \in BOOLEAN :
             InferenceResume(r, TRUE, i) => last'.handle = Built(r)
       /\ \A n \in Names, x \in Inputs, kw \in KwargsSet, i \in BOOLEAN :
             ( /\ InferenceCall(n, x, kw, i)
               /\ _get_cache_key(n, x, kw) \notin CacheKeys(cache)
               /\ get_loaded_model(n) # NoHandle
               /\ get_model_info(n) # NoModel
               /\ ~Updating(n) )
             => last'.handle.path = registry[n].path]_vars

\* C4: an inference call whose key is in the cache returns the stored payload
\* and neither invokes a model nor calls the loader; and an inference call
\* that missed and succeeded leaves its payload in the cache under its key and
\* has invoked the model once, so that the same request made next is a hit
\* with the same payload.
C4_CacheHit ==
    [][\A n \in Names, x \in Inputs, kw \in KwargsSet :
          LET key == _get_cache_key(n, x, kw)
              call == \E i \in BOOLEAN : InferenceCall(n, x, kw, i)
              resume == \E r \in Loading(n), b \in BOOLEAN, i \in BOOLEAN :
                            r.input = x /\ r.kwargs = kw /\ InferenceResume(r, b, i)
          IN /\ (key \in CacheKeys(cache) /\ call) =>
                   /\ last'.cacheHit /\ last'.outcome = "ok"
                   /\ last'.payload = CacheGet(cache, key)
                   /\ request_count' = request_count
                   /\ tasks' = tasks /\ loaded_models' = loaded_models
             /\ ( /\ key \notin CacheKeys(cache)
                  /\ last'.outcome = "ok"
                  /\ (call /\ tasks' = tasks) \/ resume ) =>
                   /\ ~last'.cacheHit
                   /\ key \in CacheKeys(cache')
                   /\ CacheGet(cache', key) = last'.payload
                   /\ request_count'[n] = request_count[n] + 1]_vars

\* A hit has been served after one invocation of the model.
C4_Witness ==
    /\ last.op = "inference" /\ last.cacheHit /\ last.payload # NoPayload
    /\ request_count[last.name] = 1

\* C5: the result cache never holds more than cache_size entries.
C5_Bounded == Len(cache) <= cache_size

\* The cache is full and an entry has been evicted from it.
C5_Witness ==
    /\ Len(cache) = cache_size
    /\ \E k \in AllKeys : puts[k].stored /\ k \notin CacheKeys(cache)

\* C6: a key that was stored is in the cache with its value as long as fewer
\* than cache_size further distinct keys have been inserted, and is not in the
\* cache once cache_size further distinct keys have been inserted.
C6_Fifo ==
    \A k \in AllKeys :
        puts[k].stored =>
            IF Cardinality(puts[k].later) < cache_size
            THEN k \in CacheKeys(cache) /\ CacheGet(cache, k) = puts[k].value
            ELSE k \notin CacheKeys(cache)

\* C7: a lookup of an entry stored TTL or more ago is a miss.
C7_Expiry ==
    [][\A n \in Names, x \in Inputs, kw \in KwargsSet, i \in BOOLEAN :
          LET key == _get_cache_key(n, x, kw)
          IN ( /\ InferenceCall(n, x, kw, i)
               /\ tasks' = tasks
               /\ key \in CacheKeys(cache)
               /\ now >= puts[key].at + TTL )
             => ~last'.cacheHit /\ (key \in CacheKeys(cache') => puts'[key].at = now)]_vars

\* The failures get_statistics() lets one read off for a model: the requests
\* tracked less the requests that succeeded.
FailureCount(name) == request_count[name] - performance_stats[name]

\* C9: an inference call that fails raises to its caller, adds nothing to the
\* cache, is counted as a failure and leaves the success statistics alone.
C9_Failure ==
    [][\A n \in Names :
          (InferenceReturns(n) /\ last'.outcome # "ok") =>
              /\ last'.op = "inference"
              /\ cache' = cache
              /\ performance_stats' = performance_stats
              /\ FailureCount(n)' = FailureCount(n) + 1]_vars

\* The items of a kwargs dict.
Params(kwargs) == {kwargs[i] : i \in 1..Len(kwargs)}

SameRequest(p, q) ==
    p.model = q.model /\ p.input = q.input /\ Params(p.kwargs) = Params(q.kwargs)

\* C8: two requests have the same cache key exactly if they have the same
\* model name, the same input and the same set of parameters.
C8_KeyIff ==
    keyed # NoKeys => ((keyed.a = keyed.b) <=> SameRequest(reqs[1], reqs[2]))

\* The result list a finished batch delivered: in the response, or in the
\* job's record.
Delivered == IF batch.async_processing THEN job.results ELSE response.results

\* C10: a batch with a valid operation always ends with a result list, in
\* which every image that failed (undecodable ones included) has an error
\* entry and every other image a result.
C10_NoAbort ==
    (batch_pc = "done" /\ batch.operation \in {"detect", "classify"}) =>
        /\ IF batch.async_processing THEN job.status = "completed"
                                     ELSE response.kind = "results"
        /\ \A i \in 1..Len(batch.images) :
              \E j \in 1..Len(Delivered) :
                 /\ Delivered[j].of = i
                 /\ Delivered[j].status = IF batch.images[i] = "good" THEN "ok" ELSE "error"

\* The batch has ended with a result list for its caller.
ResultsDelivered ==
    /\ batch_pc = "done"
    /\ IF batch.async_processing THEN job.status = "completed"
                                 ELSE response.kind = "results"

\* What processing image i of the request comes to.
ItemStatus(i) == IF batch.images[i] = "good" THEN "ok" ELSE "error"

\* C11: the result list of a batch over N images has N entries, entry i being
\* the result of image i or the error captured for image i.
C11_Order ==
    ResultsDelivered =>
        /\ Len(Delivered) = Len(batch.images)
        /\ \A i \in 1..Len(batch.images) :
              Delivered[i].of = i /\ Delivered[i].status = ItemStatus(i)

\* C12: a job whose batch had a failing item ends as partial, and a job is
\* recorded as completed only if every item of its batch succeeded.
C12_Status ==
    /\ job.status = "completed" =>
          \A i \in 1..Len(batch.images) : ItemStatus(i) = "ok"
    /\ ( /\ batch_pc = "done" /\ batch.async_processing
         /\ batch.operation \in {"detect", "classify"}
         /\ \E i \in 1..Len(batch.images) : ItemStatus(i) = "error" )
       => job.status = "partial"

Due == {n \in 1..consumed : (n - 1) % (skip_frames + 1) = 0}

\* C14: the frames are taken one by one in the order of the source, and what
\* has been yielded is one entry for each frame taken whose index is a
\* multiple of skip_frames + 1, in the order of the source, a result if the
\* frame was processed and an error entry if processing it raised.
C14_Stream ==
    /\ consumed = frame_count
    /\ Len(yielded) = Cardinality(Due)
    /\ \A j \in 1..Len(yielded) :
          LET n == (j - 1) * (skip_frames + 1) + 1
          IN /\ yielded[j].of = n
             /\ yielded[j].status = IF image_stream[n] = "good" THEN "ok" ELSE "error"

\* A stream was taken to its end with frames skipped, and a result was
\* yielded after an error entry.
C14_Witness ==
    /\ consumed = Len(image_stream) /\ skip_frames > 0
    /\ Len(yielded) < consumed
    /\ \E j \in 1..(Len(yielded) - 1) :
          yielded[j].status = "error" /\ yielded[j + 1].status = "ok"

\* C15: register_model for a name that is in the registry raises and leaves
\* the registry and the catalog file as they were.
C15_AlreadyRegistered ==
    [][\A n \in Names, ty \in ModelTypes :
          (registry[n] # NoModel /\ register_model(n, ty, "1.0.0", DefaultRegistry[n].path, NoMetrics))
          => /\ last'.op = "register_model" /\ last'.outcome = "ValueError"
             /\ registry' = registry
             /\ catalog' = catalog]_vars

\* register_model was refused for a registered name.
C15_Witness ==
    /\ last.op = "register_model" /\ last.outcome = "ValueError"
    /\ registry[last.name] # NoModel

\* C16: unregister_model for a name that is not in the registry raises.
C16_NotFound ==
    [][\A n \in Names :
          (registry[n] = NoModel /\ unregister_model(n)) => last'.outcome # "ok"]_vars

\* C17: when unregister_model returns for a model that was resident, the
\* name is in neither the registry nor the resident table nor the catalog file.
C17_UnregisterResident ==
    [][\A n \in Names :
          (registry[n] # NoModel /\ loaded_models[n] # NoHandle /\ unregister_model(n))
          => /\ last'.outcome = "ok"
             /\ registry'[n] = NoModel
             /\ loaded_models'[n] = NoHandle
             /\ catalog'[n] = NoModel]_vars

\* unregister_model has returned for a model that was resident.
C17_Witness ==
    /\ last.op = "unregister_model" /\ last.handle # NoHandle
    /\ registry[last.name] = NoModel /\ loaded_models[last.name] = NoHandle

\* C20: when the construction of a model raises, load_model raises to its
\* caller, the resident table is left as it was, and the descriptor of the
\* model, if it has one, gets the status failed.
C20_LoadFailure ==
    [][\A r \in BagToSet(tasks) :
          (r.op = "load_model" /\ LoadModelResume(r, FALSE))
          => /\ last'.op = "load_model" /\ last'.outcome # "ok"
             /\ loaded_models' = loaded_models
             /\ registry[r.name] # NoModel => registry'[r.name].status = "failed"]_vars

\* The registered models a selection for (model_type, version) may return:
\* those of the type that are ready, of the version if one is asked for.
Selectable(model_type, version) ==
    {n \in Names : /\ registry[n] # NoModel
                   /\ registry[n].type = model_type
                   /\ registry[n].status = "ready"
                   /\ version = NoVersion \/ registry[n].version = version}

\* The metric a policy compares the models of a type by, Absent if a model
\* has none.
PolicyMetric(name, model_type, prefer_fast) ==
    IF prefer_fast THEN registry[name].metrics.inference_time_ms
    ELSE IF model_type = "yolo" THEN registry[name].metrics.mAP
    ELSE registry[name].metrics.accuracy

\* Model a is at least as good as model b, which has the metric.
AsGoodAs(a, b, model_type, prefer_fast) ==
    LET ma == PolicyMetric(a, model_type, prefer_fast)
        mb == PolicyMetric(b, model_type, prefer_fast)
    IN ma # Absent /\ IF prefer_fast THEN ma <= mb ELSE ma >= mb

\* C18: get_model returns a name exactly if a registered model that is ready,
\* of the type and of the version asked for exists, and the name it returns is
\* that of such a model, no other such model having a better metric.
C18_SelectBest ==
    [][\A ty \in SelectTypes, v \in SelectVersions \cup {NoVersion}, fast \in BOOLEAN :
          (budget' # budget /\ last'.op = "get_model" /\ get_model(ty, v, fast)) =>
             /\ last'.outcome = "ok" <=> Selectable(ty, v) # {}
             /\ last'.outcome = "ok" =>
                   /\ last'.name \in Selectable(ty, v)
                   /\ \A c \in Selectable(ty, v) :
                         PolicyMetric(c, ty, fast) # Absent
                            => AsGoodAs(last'.name, c, ty, fast)]_vars

\* The detector registered second was selected, and only for being faster:
\* it has the version and the status of the first and a lower mAP.
C18_Witness ==
    /\ last.op = "get_model" /\ last.outcome = "ok"
    /\ Len(model_order) = 2 /\ model_order[2] = last.name
    /\ LET a == registry[model_order[1]]
           b == registry[model_order[2]]
       IN /\ a.type = "yolo" /\ b.type = "yolo" /\ a.version = b.version
          /\ a.status = "ready" /\ b.status = "ready"
          /\ b.metrics.inference_time_ms # Absent
          /\ a.metrics.inference_time_ms # Absent
          /\ b.metrics.inference_time_ms < a.metrics.inference_time_ms
          /\ b.metrics.mAP < a.metrics.mAP

\* The place of a name in the lexicographic order of the names.
NameRank(name) == IF name = "resnet_default" THEN 1 ELSE 2

\* C19: among the selectable models with the same value of the policy's
\* metric as the model get_model returns (or without the metric, like it),
\* none has a lexicographically smaller name.
C19_TieBreak ==
    [][\A ty \in SelectTypes, v \in SelectVersions \cup {NoVersion}, fast \in BOOLEAN :
          (last'.op = "get_model" /\ last'.outcome = "ok" /\ get_model(ty, v, fast)) =>
             \A c \in Selectable(ty, v) :
                PolicyMetric(c, ty, fast) = PolicyMetric(last'.name, ty, fast)
                   => NameRank(last'.name) <= NameRank(c)]_vars

\* C21: an inference call that names a model which is not in the registry
\* fails with the not-found error and delivers no result.
C21_NotRegistered ==
    [][\A n \in Names, x \in Inputs, kw \in KwargsSet, i \in BOOLEAN :
          (registry[n] = NoModel /\ InferenceCall(n, x, kw, i)) =>
             /\ last'.op = "inference"
             /\ last'.outcome = "ValueError"
             /\ last'.payload = NoPayload]_vars

\* C24: unload_model of a name that is not resident returns without error and
\* changes neither the resident table nor the registry.
C24_UnloadIdempotent ==
    [][\A n \in Names :
          (loaded_models[n] = NoHandle /\ UnloadModelCall(n)) =>
             /\ last'.outcome = "ok"
             /\ UNCHANGED <<loaded_models, registry, catalog, model_order>>]_vars

\* unload_model returned for a model that was never loaded: it was the first
\* call made.
C24_Witness ==
    /\ last.op = "unload_model" /\ last.outcome = "ok"
    /\ budget = MaxCalls - 1
    /\ loaded_models[last.name] = NoHandle

\* C25: every name in the resident table is a registered name.
C25_ResidentRegistered ==
    \A n \in Names : loaded_models[n] # NoHandle => registry[n] # NoModel

\* C26: whenever no load or update of a registered name is in flight, its
\* resident handle, if any, was constructed from the artifact path its
\* descriptor records.
C26_HandleCurrent ==
    \A n \in Names :
       (Loading(n) = {} /\ registry[n] # NoModel /\ loaded_models[n] # NoHandle)
          => loaded_models[n].path = registry[n].path

\* C27: an inference call on a registered model on which no update is in
\* flight returns no payload computed from another artifact than the one the
\* descriptor records.
C27_NoStalePayload ==
    [][\A n \in Names, x \in Inputs, kw \in KwargsSet, i \in BOOLEAN :
          (/\ registry[n] # NoModel /\ Loading(n) = {}
           /\ loaded_models[n] = NoHandle \/ loaded_models[n].path = registry[n].path
           /\ InferenceCall(n, x, kw, i)
           /\ tasks' = tasks /\ last'.outcome = "ok")
             => last'.payload.artifact = registry[n].path]_vars

\* C29: a step removes entries from the cache only if the cache was at its
\* capacity and the step inserted a key that was not present, and the key an
\* inference stores is present afterwards.
C29_StoreExisting ==
    [][/\ CacheKeys(cache) \ CacheKeys(cache') # {}
          => Len(cache) >= cache_size /\ CacheKeys(cache') \ CacheKeys(cache) # {}
       /\ \A r \in BagToSet(tasks) :
             InferenceResume(r, TRUE, TRUE)
                => _get_cache_key(r.name, r.input, r.kwargs) \in CacheKeys(cache')]_vars

\* The models held cover every type load_all_models is to load.
RequiredLoaded ==
    \A m \in ModelConfigs : \E l \in models : ConfigType(l) = ConfigType(m)

\* C23: health_check reports healthy only if a model of every required type
\* is held and no load has failed, and reports it if they are held and Redis
\* answers; /ready answers ready exactly if both models of the manager are
\* loaded.
C23_Health ==
    [][/\ \A pinged \in BOOLEAN :
             health_check(pinged) =>
                /\ health'.status = "healthy" =>
                      /\ RequiredLoaded
                      /\ \A m \in ModelConfigs : model_load_gauge[m] # 0
                /\ (RequiredLoaded /\ pinged) => health'.status = "healthy"
       /\ readiness_check => (ready'.ready <=> (yolo_model /\ resnet_model))]_vars

\* C28: when update_model raises, the resident table, the registry and the
\* catalog are as they were before the call: a call that raises without having
\* been suspended changes none of them, and when the reload raises, the model,
\* which was resident before the call, is resident.
C28_UpdateFailure ==
    [][/\ \A n \in Names, p \in NewPaths, v \in NewVersions, c \in BOOLEAN :
             (UpdateModelCall(n, p, v, c) /\ tasks' = tasks /\ last'.outcome # "ok")
                => UNCHANGED <<registry, catalog, loaded_models>>
       /\ \A r \in BagToSet(tasks) :
             (r.op = "update_model" /\ UpdateModelResume(r, FALSE))
                => loaded_models'[r.name] # NoHandle]_vars

\* C22: a step that changes the registry leaves the catalog equal to it, and
\* a crash during the save of a mutation leaves the catalog as it was before
\* the mutation or as the mutation makes it.
C22_AtomicSave ==
    [][/\ registry' # registry => catalog' = registry'
       /\ \A reg \in Saves : \A written \in 0..Len(DumpOrder(reg)) :
             CrashInSave(reg, written) => catalog' \in {catalog, reg}]_vars

\* C30: the job's status is completed only once its results are stored; a
\* job whose operation makes the processing raise is never completed and is
\* failed when the background task has ended; and a status of completed or
\* failed is never written over.
C30_JobStatus ==
    [][/\ job'.status = "completed" => job'.saved
       /\ job.status \in {"completed", "failed"} => job'.status = job.status
       /\ (batch.async_processing /\ batch.operation \notin {"detect", "classify"})
             => /\ job'.status # "completed"
                /\ (batch_pc # "done" /\ batch_pc' = "done") => job'.status = "failed"]_vars

\* The background task has ended with the job completed, its results stored,
\* one of them the error entry of an image whose detection raised.
C30_Witness ==
    /\ batch_pc = "done"
    /\ job.status = "completed" /\ job.saved
    /\ \E i \in 1..Len(job.results) : job.results[i].status = "error"

====
